---- MODULE Spec2Model ----
(***************************************************************************)
(* darkfid transaction admission: the JSON-RPC handlers tx.transfer and    *)
(* tx.broadcast of bin/darkfid/src/rpc_tx.rs, as a state machine.          *)
(*                                                                         *)
(* A call is a coroutine: it runs from one .await to the next, and other   *)
(* calls, the validator (the ledger's writer) and the sync task may run    *)
(* in between.  Each action below is one such segment of a handler.        *)
(***************************************************************************)
EXTENDS Naturals, Sequences, FiniteSets

\* Concurrent RPC calls the model follows.
MaxCalls == 1
\* Longest parameter list the RPC boundary hands to a handler.
MaxParams == 3

CallIds == 1..MaxCalls

(***************************************************************************)
(* JSON values (serde_json::Value), by the type tests the handlers make.   *)
(***************************************************************************)
Str(s) == [type |-> "string", val |-> s]
U64(n) == [type |-> "u64", val |-> n]
Null == [type |-> "null", val |-> "null"]

\* Value::is_string, Value::is_u64
is_string(v) == v.type = "string"
is_u64(v) == v.type = "u64"

\* Value::as_str: Some(text) for a string, None for every other value.
NoneStr == <<>>
as_str(v) == IF is_string(v) THEN <<v.val>> ELSE NoneStr

(***************************************************************************)
(* The strings a caller may send, by what the decoders make of them.       *)
(*   junk        not base-58 at all                                        *)
(*   addrNoKey   an address with no public key in it                       *)
(*   addrOk      an address holding a public key                           *)
(*   tokenOk     a base-58 token id                                        *)
(*   txBadProof  base-58 of a transaction whose proof does not verify      *)
(*   txSpendN1   base-58 of a transaction spending the coin n1             *)
(***************************************************************************)

\* The coins a transaction may spend; the canonical state is the set of those
\* already spent.
Nullifiers == {"n1"}

\* Address::from_str
AddressFromStr(s) == s \in {"addrNoKey", "addrOk"}
\* PublicKey::try_from(Address)
PublicKeyFromAddress(s) == s = "addrOk"
\* token_id::parse_b58
TokenParseB58(s) == s = "tokenOk"
\* bs58::decode(..).into_vec()
Bs58Decode(s) == s # "junk"
\* deserialize::<Transaction>(&bytes)
IsTxEncoding(s) == s \in {"txBadProof", "txSpendN1"}
NoTx == [to |-> "none", token |-> "none", amount |-> "0", spend |-> "none", proof |-> "none"]
Deserialize(s) ==
    CASE s = "txBadProof" ->
           [to |-> "addrOk", token |-> "tokenOk", amount |-> "12345", spend |-> "n1", proof |-> "bad"]
      [] s = "txSpendN1" ->
           [to |-> "addrOk", token |-> "tokenOk", amount |-> "12345", spend |-> "n1", proof |-> "ok"]
      [] OTHER -> NoTx

\* serialize(&tx), and blake3::hash(..).to_hex() of it
serialize(tx) == <<tx.to, tx.token, tx.amount, tx.spend, tx.proof>>
tx_hash(tx) == <<"blake3">> \o serialize(tx)

(***************************************************************************)
(* ValidatorState::validate_state_transitions(mem_state, &[tx]): the dry   *)
(* run on a MemoryState.  It rejects a transaction whose proof does not    *)
(* verify or whose coin is already spent in the state it is given.         *)
(***************************************************************************)
validate_state_transitions(mem_state, tx) == tx.proof = "ok" /\ tx.spend \notin mem_state

(***************************************************************************)
(* Parameter lists: every shape over the three value types up to the      *)
(* longest list a handler accepts, the lists of one value beyond that up   *)
(* to MaxParams, and, for the shapes a handler goes on to decode, every    *)
(* kind of string in the decoded positions.                                *)
(***************************************************************************)
ShapeValues == {Str("junk"), U64("12345"), Null}

\* line 30: params.len() != 3
TransferArity == 3

Shapes ==
    UNION {[1..n -> ShapeValues] :
             n \in 0..(IF MaxParams < TransferArity THEN MaxParams ELSE TransferArity)}
      \cup UNION {[1..n -> {v}] : n \in (TransferArity + 1)..MaxParams, v \in ShapeValues}
TransferLists ==
    {<<Str(a), Str(t), U64("12345")>> : a \in {"junk", "addrNoKey", "addrOk"}, t \in {"junk", "tokenOk"}}
BroadcastLists == {<<Str(s)>> : s \in {"junk", "tokenOk", "txBadProof", "txSpendN1"}}
ParamLists == Shapes \cup TransferLists \cup BroadcastLists

Methods == {"tx.transfer", "tx.broadcast"}

(***************************************************************************)
(* Outcomes of a call (JsonResult), and a panic of the handler.            *)
(***************************************************************************)
NoResult == [kind |-> "none", val |-> <<>>]
JsonError(code) == [kind |-> "error", val |-> <<code>>]
JsonResponse(v) == [kind |-> "result", val |-> v]
Panic == [kind |-> "panic", val |-> <<>>]

ErrorCodes ==
    {"InvalidParams", "NotYetSynced", "InvalidAddressParam", "ParseError",
     "TxBuildFail", "TxSimulationFail", "TxBroadcastFail"}

VARIABLES
    synced,       \* Darkfid::synced, the Mutex<bool> gate
    sync_p2p,     \* Darkfid::sync_p2p is Some(..)
    ledger,       \* validator_state.state_machine: the canonical state (spent coins)
    readers,      \* calls holding a read guard of validator_state
    calls,        \* the RPC calls: their input, position and outcome
                  \*   did: the steps the call has run; bcasts: its calls of
                  \*   sync_p2p.broadcast; sawSynced: what its gate read;
                  \*   pre: the node's state when the call came in
    issued,       \* the answers given with an id: the serialized transaction and the id
    hosts,        \* P2p::hosts(), the Host Store shared by all channels
    settings,     \* P2p::settings(): localnet, external_addr
    chan,         \* the channels (connections) and the ProtocolAddress instance of each
    clock,        \* the time, in seconds, that async_util::sleep goes by
    sol           \* the SolClient: subscriptions, notify_channel, watch_channel

rpcVars == <<synced, sync_p2p, ledger, readers, calls, issued>>
netVars == <<hosts, settings, chan, clock>>
solVars == <<sol>>
vars == <<synced, sync_p2p, ledger, readers, calls, issued, hosts, settings, chan, clock, sol>>

\* The keys SolClient::watch may generate, and no notification in hand.
SolKeys == {"k1", "k2"}
NoNotif == [owner |-> "", new_bal |-> 0, old_balance |-> 0, sub_id |-> 0]

\* SolClient::new: no subscription, both channels empty, no watch() under way
\* (watching: how far the watch() of a key has come and the balance it read);
\* forwarded: the requests the task of run has written to the websocket;
\* no_entry: the notifications whose owner was not in the map at line 143,
\* each with the key of the subscription it came from.
NewSolClient ==
    [subscriptions |-> [k \in SolKeys |-> [watched |-> FALSE, balance |-> 0]],
     notify_channel |-> <<>>, watch_channel |-> <<>>,
     watching |-> [k \in SolKeys |-> [at |-> 0, balance |-> 0]],
     forwarded |-> 0, writer |-> "running", no_entry |-> {},
     pc |-> "idle", cur |-> NoNotif, n |-> 0, log |-> <<>>]

SolIdle == sol = NewSolClient

IdleCall ==
    [method |-> "none", params |-> <<>>, pc |-> "idle", result |-> NoResult,
     did |-> {}, sawSynced |-> "unread", tx |-> NoTx, snap |-> {},
     bcasts |-> <<>>, pre |-> [synced |-> FALSE]]

\* No channel is connected: the state of the network side while the RPC
\* handlers are followed.
NetIdle ==
    /\ hosts = <<>>
    /\ settings = [localnet |-> FALSE, external_addr |-> <<>>]
    /\ chan = <<>>
    /\ clock = 0

Init ==
    /\ synced \in BOOLEAN
    /\ sync_p2p \in BOOLEAN
    /\ ledger = {}
    /\ readers = {}
    /\ calls = [c \in CallIds |-> IdleCall]
    /\ issued = {}
    /\ NetIdle
    /\ SolIdle

Done(c) == calls[c].pc = "done"

\* A handler returns: the outcome is recorded and the call is over.
Return(c, r) == [calls EXCEPT ![c].pc = "done", ![c].result = r]

(***************************************************************************)
(* The RPC boundary hands a request to its handler.                        *)
(***************************************************************************)
Invoke(c) ==
    /\ calls[c].pc = "idle"
    /\ \E m \in Methods, p \in ParamLists :
         calls' = [calls EXCEPT ![c].method = m, ![c].params = p, ![c].pc = "params",
                                ![c].pre = [synced |-> synced]]
    /\ UNCHANGED <<synced, sync_p2p, ledger, readers>>
    /\ UNCHANGED <<issued, netVars, solVars>>

(***************************************************************************)
(* The environment: the sync task sets the gate, the validator commits a   *)
(* state transition under the write lock of validator_state.               *)
(***************************************************************************)
FinishSync ==
    /\ ~synced
    /\ synced' = TRUE
    /\ UNCHANGED <<sync_p2p, ledger, readers, calls>>
    /\ UNCHANGED <<issued, netVars, solVars>>

CommitTransition ==
    /\ readers = {}
    /\ \E n \in Nullifiers \ ledger : ledger' = ledger \cup {n}
    /\ UNCHANGED <<synced, sync_p2p, readers, calls>>
    /\ UNCHANGED <<issued, netVars, solVars>>

(***************************************************************************)
(* tx.transfer (submit-by-intent), rpc_tx.rs lines 29-101.                 *)
(***************************************************************************)

\* lines 30-33: the parameter test
TransferParamsInvalid(params) ==
    \/ Len(params) # 3
    \/ ~is_string(params[1])
    \/ ~is_string(params[2])
    \/ ~is_u64(params[3])

\* lines 30-36
TransferParams(c) ==
    /\ calls[c].method = "tx.transfer"
    /\ calls[c].pc = "params"
    /\ calls' = IF TransferParamsInvalid(calls[c].params)
                  THEN Return(c, JsonError("InvalidParams"))
                  ELSE [calls EXCEPT ![c].pc = "synced"]
    /\ UNCHANGED <<synced, sync_p2p, ledger, readers>>
    /\ UNCHANGED <<issued, netVars, solVars>>

\* The gate with its test inverted, as the string test of line 112 is.
TransferSynced_Inverted(c) ==
    /\ calls[c].method = "tx.transfer"
    /\ calls[c].pc = "synced"
    /\ calls' = IF synced
                  THEN [Return(c, JsonError("NotYetSynced")) EXCEPT ![c].sawSynced = "no"]
                  ELSE [calls EXCEPT ![c].pc = "parse", ![c].sawSynced = "yes"]
    /\ UNCHANGED <<synced, sync_p2p, ledger, readers>>
    /\ UNCHANGED <<issued, netVars, solVars>>

\* lines 38-41: the synced gate
TransferSynced(c) ==
    /\ calls[c].method = "tx.transfer"
    /\ calls[c].pc = "synced"
    /\ calls' = IF ~synced
                  THEN [Return(c, JsonError("NotYetSynced")) EXCEPT ![c].sawSynced = "no"]
                  ELSE [calls EXCEPT ![c].pc = "parse", ![c].sawSynced = "yes"]
    /\ UNCHANGED <<synced, sync_p2p, ledger, readers>>
    /\ UNCHANGED <<issued, netVars, solVars>>

\* The decoders with the token id decoded before the address.
TransferDecode_TokenFirst(address, token) ==
    IF ~TokenParseB58(token)
      THEN [code |-> "ParseError", did |-> {"token"}]
    ELSE IF ~AddressFromStr(address)
      THEN [code |-> "InvalidAddressParam", did |-> {"token", "address"}]
    ELSE IF ~PublicKeyFromAddress(address)
      THEN [code |-> "ParseError", did |-> {"token", "address", "pubkey"}]
    ELSE [code |-> "ok", did |-> {"address", "pubkey", "token"}]

\* lines 47-69: the three decoders in their order; the first that fails decides
\* the error code, and `did` lists the decoders that ran.
TransferDecode(address, token) ==
    IF ~AddressFromStr(address)
      THEN [code |-> "InvalidAddressParam", did |-> {"address"}]
    ELSE IF ~PublicKeyFromAddress(address)
      THEN [code |-> "ParseError", did |-> {"address", "pubkey"}]
    ELSE IF ~TokenParseB58(token)
      THEN [code |-> "ParseError", did |-> {"address", "pubkey", "token"}]
    ELSE [code |-> "ok", did |-> {"address", "pubkey", "token"}]

\* lines 43-69
TransferParse(c) ==
    /\ calls[c].method = "tx.transfer"
    /\ calls[c].pc = "parse"
    /\ LET address == as_str(calls[c].params[1])[1]
           token == as_str(calls[c].params[2])[1]
           d == TransferDecode(address, token)
       IN calls' = IF d.code # "ok"
                     THEN [Return(c, JsonError(d.code)) EXCEPT ![c].did = @ \cup d.did]
                     ELSE [calls EXCEPT ![c].pc = "snapshot", ![c].did = @ \cup d.did]
    /\ UNCHANGED <<synced, sync_p2p, ledger, readers>>
    /\ UNCHANGED <<issued, netVars, solVars>>

\* line 78: validator_state.read().await.state_machine.clone(), the argument
\* of build_transaction.  The read guard is a temporary of the `let tx = match`
\* statement and lives to its end (line 87); what is cloned is the handle of
\* the state machine, not the state.
TransferSnapshot(c) ==
    /\ calls[c].method = "tx.transfer"
    /\ calls[c].pc = "snapshot"
    /\ readers' = readers \cup {c}
    /\ calls' = [calls EXCEPT ![c].pc = "build", ![c].did = @ \cup {"ledger"}]
    /\ UNCHANGED <<synced, sync_p2p, ledger>>
    /\ UNCHANGED <<issued, netVars, solVars>>

\* client.build_transaction(pubkey, amount, token_id, false, state_machine):
\* the transaction the wallet builds, spending a coin that is unspent in the
\* state behind the handle.
BuiltTx(params, coin) ==
    [to |-> params[1].val, token |-> params[2].val, amount |-> params[3].val,
     spend |-> coin, proof |-> "ok"]

\* lines 71-87: the build returns; the read guard is dropped with the statement
TransferBuild(c) ==
    /\ calls[c].method = "tx.transfer"
    /\ calls[c].pc = "build"
    /\ readers' = readers \ {c}
    /\ \/ \E coin \in Nullifiers \ ledger :
            calls' = [calls EXCEPT ![c].pc = "p2p", ![c].did = @ \cup {"build"},
                                   ![c].snap = ledger,
                                   ![c].tx = BuiltTx(calls[c].params, coin)]
       \/ calls' = [Return(c, JsonError("TxBuildFail")) EXCEPT
                        ![c].did = @ \cup {"build"}, ![c].snap = ledger]
    /\ UNCHANGED <<synced, sync_p2p, ledger>>
    /\ UNCHANGED <<issued, netVars, solVars>>

\* One call of sync_p2p.broadcast(tx.clone()) and what it returned.
Sent(tx, ok) == [tx |-> tx, ok |-> ok]

\* The broadcast with its error dropped: the id is returned whatever
\* sync_p2p.broadcast answered.
BroadcastAndHash_ErrorIgnored(c) ==
    IF sync_p2p
      THEN \E ok \in BOOLEAN :
             calls' = [Return(c, JsonResponse(tx_hash(calls[c].tx))) EXCEPT
                            ![c].did = @ \cup {"broadcast"},
                            ![c].bcasts = Append(@, Sent(calls[c].tx, ok))]
      ELSE calls' = Return(c, JsonError("TxBroadcastFail"))

\* An id that takes in the state of the ledger with the transaction.
BroadcastAndHash_StateInId(c) ==
    IF sync_p2p
      THEN \/ calls' = [Return(c, JsonResponse(tx_hash(calls[c].tx)
                                     \o <<IF ledger = {} THEN "s0" ELSE "s1">>)) EXCEPT
                            ![c].did = @ \cup {"broadcast"},
                            ![c].bcasts = Append(@, Sent(calls[c].tx, TRUE))]
           \/ calls' = [Return(c, JsonError("TxBroadcastFail")) EXCEPT
                            ![c].did = @ \cup {"broadcast"},
                            ![c].bcasts = Append(@, Sent(calls[c].tx, FALSE))]
      ELSE calls' = Return(c, JsonError("TxBroadcastFail"))

\* The broadcast repeated once after a failure.
BroadcastAndHash_Retry(c) ==
    IF sync_p2p
      THEN \/ calls' = [Return(c, JsonResponse(tx_hash(calls[c].tx))) EXCEPT
                            ![c].did = @ \cup {"broadcast"},
                            ![c].bcasts = Append(@, Sent(calls[c].tx, TRUE))]
           \/ calls' = [Return(c, JsonResponse(tx_hash(calls[c].tx))) EXCEPT
                            ![c].did = @ \cup {"broadcast"},
                            ![c].bcasts = @ \o <<Sent(calls[c].tx, FALSE), Sent(calls[c].tx, TRUE)>>]
           \/ calls' = [Return(c, JsonError("TxBroadcastFail")) EXCEPT
                            ![c].did = @ \cup {"broadcast"},
                            ![c].bcasts = @ \o <<Sent(calls[c].tx, FALSE), Sent(calls[c].tx, FALSE)>>]
      ELSE calls' = Return(c, JsonError("TxBroadcastFail"))

\* lines 89-100 and 149-160: broadcast to the peers when there is a sync P2P
\* network, then answer with the hash of the serialized transaction.
BroadcastAndHash(c) ==
    IF sync_p2p
      THEN \/ calls' = [Return(c, JsonResponse(tx_hash(calls[c].tx))) EXCEPT
                            ![c].did = @ \cup {"broadcast"},
                            ![c].bcasts = Append(@, Sent(calls[c].tx, TRUE))]
           \/ calls' = [Return(c, JsonError("TxBroadcastFail")) EXCEPT
                            ![c].did = @ \cup {"broadcast"},
                            ![c].bcasts = Append(@, Sent(calls[c].tx, FALSE))]
      ELSE calls' = Return(c, JsonError("TxBroadcastFail"))

\* A dry run on the current state placed before the broadcast.
TransferBroadcast_DryRun(c) ==
    /\ calls[c].method = "tx.transfer"
    /\ calls[c].pc = "p2p"
    /\ IF ~validate_state_transitions(ledger, calls[c].tx)
         THEN calls' = [Return(c, JsonError("TxSimulationFail")) EXCEPT
                            ![c].did = @ \cup {"simulate"}]
         ELSE BroadcastAndHash(c)
    /\ UNCHANGED <<synced, sync_p2p, ledger, readers>>
    /\ UNCHANGED <<issued, netVars, solVars>>

\* lines 89-100
TransferBroadcast(c) ==
    /\ calls[c].method = "tx.transfer"
    /\ calls[c].pc = "p2p"
    /\ BroadcastAndHash(c)
    /\ UNCHANGED <<synced, sync_p2p, ledger, readers>>
    /\ UNCHANGED <<issued, netVars, solVars>>

(***************************************************************************)
(* tx.broadcast (submit-raw), rpc_tx.rs lines 111-161.                     *)
(***************************************************************************)

\* line 112: the parameter test.  It holds for a single string.
BroadcastParamsInvalid(params) ==
    \/ Len(params) # 1
    \/ is_string(params[1])

\* lines 112-114
BroadcastParams(c) ==
    /\ calls[c].method = "tx.broadcast"
    /\ calls[c].pc = "params"
    /\ calls' = IF BroadcastParamsInvalid(calls[c].params)
                  THEN Return(c, JsonError("InvalidParams"))
                  ELSE [calls EXCEPT ![c].pc = "synced"]
    /\ UNCHANGED <<synced, sync_p2p, ledger, readers>>
    /\ UNCHANGED <<issued, netVars, solVars>>

\* lines 116-119: the synced gate
BroadcastSynced(c) ==
    /\ calls[c].method = "tx.broadcast"
    /\ calls[c].pc = "synced"
    /\ calls' = IF ~synced
                  THEN [Return(c, JsonError("NotYetSynced")) EXCEPT ![c].sawSynced = "no"]
                  ELSE [calls EXCEPT ![c].pc = "decode", ![c].sawSynced = "yes"]
    /\ UNCHANGED <<synced, sync_p2p, ledger, readers>>
    /\ UNCHANGED <<issued, netVars, solVars>>

\* lines 122-136: params[0].as_str().unwrap(), bs58::decode, deserialize
BroadcastDecode(c) ==
    LET text == as_str(calls[c].params[1])
    IN /\ calls' =
            IF text = NoneStr
              THEN Return(c, Panic)
            ELSE IF ~Bs58Decode(text[1])
              THEN [Return(c, JsonError("ParseError")) EXCEPT ![c].did = @ \cup {"b58"}]
            ELSE IF ~IsTxEncoding(text[1])
              THEN [Return(c, JsonError("ParseError")) EXCEPT
                        ![c].did = @ \cup {"b58", "deserialize"}]
            ELSE [calls EXCEPT ![c].pc = "readguard", ![c].tx = Deserialize(text[1]),
                               ![c].did = @ \cup {"b58", "deserialize"}]
       /\ UNCHANGED readers

\* line 139, first await: validator_state.read().await
BroadcastReadGuard(c) ==
    /\ readers' = readers \cup {c}
    /\ calls' = [calls EXCEPT ![c].pc = "snapshot"]

\* lines 139-141, second await: state_machine.lock().await.clone() with the read
\* guard still held; both guards are dropped at the end of the statement, and
\* MemoryState::new takes the clone.
BroadcastSnapshot(c) ==
    /\ readers' = readers \ {c}
    /\ calls' = [calls EXCEPT ![c].pc = "simulate", ![c].snap = ledger,
                           ![c].did = @ \cup {"snapshot"}]

\* lines 144-147: the dry run on the MemoryState
BroadcastSimulate(c) ==
    /\ calls' = IF ~validate_state_transitions(calls[c].snap, calls[c].tx)
                  THEN [Return(c, JsonError("TxSimulationFail")) EXCEPT
                            ![c].did = @ \cup {"simulate"}]
                  ELSE [calls EXCEPT ![c].pc = "p2p", ![c].did = @ \cup {"simulate"}]
    /\ UNCHANGED readers

\* lines 121-160: the handler past its gates, one segment per step
BroadcastRun(c) ==
    /\ calls[c].method = "tx.broadcast"
    /\ calls[c].pc \in {"decode", "readguard", "snapshot", "simulate", "p2p"}
    /\ CASE calls[c].pc = "decode" -> BroadcastDecode(c)
         [] calls[c].pc = "readguard" -> BroadcastReadGuard(c)
         [] calls[c].pc = "snapshot" -> BroadcastSnapshot(c)
         [] calls[c].pc = "simulate" -> BroadcastSimulate(c)
         [] calls[c].pc = "p2p" -> BroadcastAndHash(c) /\ UNCHANGED readers
    /\ UNCHANGED <<synced, sync_p2p, ledger>>
    /\ UNCHANGED <<issued, netVars, solVars>>

\* lines 100 and 160: the answer leaves the handler, `json!(tx_hash)` with the
\* blake3 hash of serialize(&tx) when it is an id; the connection then takes
\* the next request.
Respond(c) ==
    /\ Done(c)
    /\ issued' = IF calls[c].result.kind = "result"
                   THEN issued \cup {[bytes |-> serialize(calls[c].tx),
                                      id |-> calls[c].result.val]}
                   ELSE issued
    /\ calls' = [calls EXCEPT ![c] = IdleCall]
    /\ UNCHANGED <<synced, sync_p2p, ledger, readers, netVars, solVars>>

Next ==
    \/ \E c \in CallIds :
         \/ Invoke(c)
         \/ Respond(c)
         \/ TransferParams(c)
         \/ TransferSynced(c)
         \/ TransferParse(c)
         \/ TransferSnapshot(c)
         \/ TransferBuild(c)
         \/ TransferBroadcast(c)
         \/ BroadcastParams(c)
         \/ BroadcastSynced(c)
         \/ BroadcastRun(c)
    \/ FinishSync
    \/ CommitTransition

Spec == Init /\ [][Next]_vars

(***************************************************************************)
(* The address-exchange protocol of a channel: ProtocolAddress of          *)
(* src/net/protocol/protocol_address.rs.  The instance of a channel runs   *)
(* init, then start, which spawns up to three loops; each loop is a        *)
(* coroutine that runs from one .await to the next.  The Channel, its      *)
(* message subscriptions, the Hosts store and the ProtocolJobsManager are  *)
(* used by this file and defined outside it; they follow their contracts.  *)
(***************************************************************************)

\* Channels (connections) of the node.
MaxChannels == 2
\* Inbound frames the peers send, over all the channels.
MaxFrames == 2
\* Longest address list a peer sends.
MaxAddrs == 3
\* Sleeps the self-announcement loop of a channel wakes from.
MaxAnnounce == 1
\* Subscriptions that other protocols of a channel hold.
MaxOtherSubs == 1

ChanIds == 1..MaxChannels
\* The channel that is followed alone.
OneChan == {1}

\* Channel::session_type_id
SESSION_OUTBOUND == "outbound"
SessionTypes == {SESSION_OUTBOUND, "inbound", "seed"}

\* LOCALNET without its last literal.
LOCALNET_NoV6Loopback == <<"localhost", "0.0.0.0", "[::]", "127.0.0.1">>

\* line 18
LOCALNET == <<"localhost", "0.0.0.0", "[::]", "127.0.0.1", "[::1]">>
\* <[&str]>::contains
contains(arr, x) == \E i \in DOMAIN arr : arr[i] = x

\* An address (url::Url) by its host and port; a url with no host has host "".
Url(host, port) == [host |-> host, port |-> port]
\* Url::host_str: None for a url with no host
host_str(addr) == IF addr.host = "" THEN NoneStr ELSE <<addr.host>>

\* The loopback and any-interface hosts a peer may name.
LocalHosts == {"localhost", "0.0.0.0", "[::]", "127.0.0.1", "[::1]"}

EmptyHost == Url("", "")
Loopback == Url("127.0.0.1", "8000")
PubA == Url("203.0.113.5", "8000")
PubB == Url("198.51.100.7", "8000")
External == Url("192.0.2.1", "9000")

\* lines 71-87: the loop over the received addresses
RECURSIVE FilterLoop(_, _)
FilterLoop(addrs, filtered) ==
    IF addrs = <<>>
      THEN filtered
      ELSE LET addr == Head(addrs)
               h == host_str(addr)
           IN  IF h # NoneStr
                 THEN IF contains(LOCALNET, h[1])
                        THEN FilterLoop(Tail(addrs), filtered)
                        ELSE FilterLoop(Tail(addrs), Append(filtered, addr))
                 ELSE FilterLoop(Tail(addrs), filtered)

\* The filter applied whatever settings.localnet says.
StoreArg_AlwaysFiltered(localnet, addrs) == FilterLoop(addrs, <<>>)

\* lines 70-90: the list handed to hosts.store
StoreArg(localnet, addrs) ==
    IF ~localnet THEN FilterLoop(addrs, <<>>) ELSE addrs

\* The address lists of the inbound Addrs messages.
\*   NetLists: the lists the peers send while the whole protocol is followed;
\*   FilterLists: every list of up to MaxAddrs addresses over an address with
\*   no host, a loopback address and two public ones, and each loopback or
\*   any-interface host between the two public addresses.
NetLists == {<<PubA, PubA>>, <<Loopback, PubB, PubA>>}
FilterLists ==
    UNION {[1..n -> {EmptyHost, Loopback, PubA, PubB}] : n \in 0..MaxAddrs}
      \cup {<<PubA, Url(h, "8000"), PubB>> : h \in LocalHosts}

\* message::AddrsMessage, message::GetAddrsMessage; no: the position of an
\* inbound frame among the frames of its channel.
AddrsMessage(addrs, no) == [type |-> "addrs", addrs |-> addrs, no |-> no]
GetAddrsMessage(no) == [type |-> "getaddrs", addrs |-> <<>>, no |-> no]

\* A message written to the peer: by, the task that sent it; at, the content
\* of the Hosts store when a reply was loaded; re, the request it answers;
\* when, the time of the send.
Out(msg, by, at, re) == [msg |-> msg, by |-> by, at |-> at, re |-> re, when |-> clock]

Tasks == {"send_my_addrs", "handle_receive_addrs", "handle_receive_get_addrs"}

MessageTypes == {"addrs", "getaddrs"}

\* A channel after its handshake, with the ProtocolAddress not yet created;
\* d, the message types a dispatcher was registered for at its setup.
ChannelWith(s, d) ==
    [session |-> s, closed |-> FALSE, stopped |-> FALSE, dispatchers |-> d,
     frames |-> <<>>, subs |-> <<>>, sent |-> <<>>,
     addrs_sub |-> 0, get_addrs_sub |-> 0,
     start |-> "new", jobs |-> {}, tasks |-> [t \in Tasks |-> "none"],
     pending |-> <<>>, stored |-> <<>>,
     addrs |-> <<>>, at |-> <<>>, rounds |-> 0, wake |-> 0]

\* A channel set up with every dispatcher.
NewChannel(s) == ChannelWith(s, MessageTypes)

\* The RPC side at rest while the channels are followed.
RpcIdle ==
    /\ synced = FALSE
    /\ sync_p2p = FALSE
    /\ ledger = {}
    /\ readers = {}
    /\ calls = [c \in CallIds |-> IdleCall]
    /\ issued = {}

Settings == {[localnet |-> l, external_addr |-> e] : l \in BOOLEAN, e \in {<<>>, <<External>>}}

\* One channel, of any session type, under any settings.
NetInit ==
    /\ hosts = <<>>
    /\ settings \in Settings
    /\ chan \in [OneChan -> {NewChannel(s) : s \in SessionTypes}]
    /\ clock = 0
    /\ RpcIdle
    /\ SolIdle

(***************************************************************************)
(* The message bus of a channel (MessageSubsystem, MessageSubscription).   *)
(***************************************************************************)
\* A subscription: its queue, the messages its holder received from it, and
\* the number of frames that had arrived when it was made.
Subscription(t, n) == [type |-> t, queue |-> <<>>, got |-> <<>>, since |-> n]

\* Channel::subscribe_msg::<T>
subscribe_msg(c, t) == Append(c.subs, Subscription(t, Len(c.frames)))

\* A dispatcher that hands a frame to one subscription only.
Dispatch_FirstOnly(subs, frame) ==
    [i \in DOMAIN subs |->
        IF subs[i].type = frame.type /\ \A j \in 1..(i - 1) : subs[j].type # frame.type
          THEN [subs[i] EXCEPT !.queue = Append(@, frame)]
          ELSE subs[i]]

\* An inbound frame is handed to every subscription of its type.
Dispatch(subs, frame) ==
    [i \in DOMAIN subs |->
        IF subs[i].type = frame.type
          THEN [subs[i] EXCEPT !.queue = Append(@, frame)]
          ELSE subs[i]]

\* MessageSubscription::receive returned the head of the queue
Received(subs, i) ==
    [subs EXCEPT ![i].queue = Tail(@), ![i].got = Append(@, Head(subs[i].queue))]

\* Channel::send(msg): it fails on a closed channel and may fail on an open one
SendOutcomes(c) == IF c.closed THEN {FALSE} ELSE {TRUE, FALSE}
channel_send(c, out, ok) == IF ok THEN [c EXCEPT !.sent = Append(@, out)] ELSE c

FrameCount ==
    Cardinality(UNION {{<<ch, i>> : i \in 1..Len(chan[ch].frames)} : ch \in DOMAIN chan})

Inbound(ch, frame) ==
    /\ ~chan[ch].closed
    /\ FrameCount < MaxFrames
    /\ chan' = [chan EXCEPT ![ch].frames = Append(@, frame),
                            ![ch].subs = Dispatch(@, frame)]
    /\ UNCHANGED <<hosts, settings, clock, rpcVars, solVars>>

\* The peer sends an Addrs message.
AddrsFrame(ch) ==
    \E l \in NetLists : Inbound(ch, AddrsMessage(l, Len(chan[ch].frames) + 1))

\* The first frame of a channel is an Addrs message with any list.
AddrsFrameAny(ch) ==
    /\ chan[ch].frames = <<>>
    /\ \E l \in FilterLists : Inbound(ch, AddrsMessage(l, 1))

\* The peer sends to a channel whose protocol has started.
AddrsFrameStarted(ch) == chan[ch].start = "started" /\ AddrsFrame(ch)

\* The peer sends a GetAddrs message.
GetAddrsFrame(ch) == Inbound(ch, GetAddrsMessage(Len(chan[ch].frames) + 1))

GetAddrsFrameStarted(ch) == chan[ch].start = "started" /\ GetAddrsFrame(ch)

\* Another protocol of the channel subscribes to the Addrs messages.
OtherSubscribe(ch) ==
    /\ Len(chan[ch].subs) < MaxOtherSubs + 2
    /\ Cardinality({i \in DOMAIN chan[ch].subs :
                      i \notin {chan[ch].addrs_sub, chan[ch].get_addrs_sub}}) < MaxOtherSubs
    /\ chan' = [chan EXCEPT ![ch].subs = subscribe_msg(chan[ch], "addrs")]
    /\ UNCHANGED <<hosts, settings, clock, rpcVars, solVars>>

\* and receives from its subscription
OtherReceive(ch) ==
    /\ ~chan[ch].closed
    /\ \E i \in DOMAIN chan[ch].subs :
         /\ i \notin {chan[ch].addrs_sub, chan[ch].get_addrs_sub}
         /\ chan[ch].subs[i].queue # <<>>
         /\ chan' = [chan EXCEPT ![ch].subs = Received(@, i)]
    /\ UNCHANGED <<hosts, settings, clock, rpcVars, solVars>>

(***************************************************************************)
(* The Hosts store (P2p::hosts()): store inserts each address that is      *)
(* absent, load_all returns every address held.                            *)
(***************************************************************************)
Held(h) == {h[i] : i \in DOMAIN h}

\* An insert that does not look for the address first.
HostsInsert_NoLookup(h, addr) == Append(h, addr)

HostsInsert(h, addr) == IF addr \in Held(h) THEN h ELSE Append(h, addr)

load_all(h) == h

(***************************************************************************)
(* The ProtocolJobsManager of a channel: spawn records the task it starts, *)
(* stop cancels every task recorded.                                       *)
(***************************************************************************)
\* A task started on the executor with no record in the manager.
spawn_Detached(c, t, pc) == [c EXCEPT !.tasks[t] = pc]

spawn(c, t, pc) == [c EXCEPT !.jobs = @ \cup {t}, !.tasks[t] = pc]

Running(c, t) == c.tasks[t] \notin {"none", "ended", "cancelled"}

\* The channel closes.
Close(ch) ==
    /\ ~chan[ch].closed
    /\ chan' = [chan EXCEPT ![ch].closed = TRUE]
    /\ UNCHANGED <<hosts, settings, clock, rpcVars, solVars>>

\* ProtocolJobsManager::stop at the teardown of the channel
JobsStop(ch) ==
    /\ chan[ch].closed
    /\ ~chan[ch].stopped
    /\ chan' = [chan EXCEPT ![ch].stopped = TRUE,
                            ![ch].tasks = [t \in Tasks |->
                                 IF t \in chan[ch].jobs /\ Running(chan[ch], t)
                                   THEN "cancelled" ELSE @[t]]]
    /\ UNCHANGED <<hosts, settings, clock, rpcVars, solVars>>

(***************************************************************************)
(* ProtocolAddress::init and ProtocolAddress::start                        *)
(***************************************************************************)
\* Channel::subscribe_msg::<T> returns Ok when a dispatcher was registered for T
has_dispatcher(c, t) == t \in c.dispatchers

\* lines 33-59: each subscribe_msg result goes through expect, which panics
\* on Err; a panic at line 49 comes after the Addrs subscription was made at
\* lines 38-42, and the unwinding may or may not take it off the bus.
ProtoInit(ch) ==
    /\ chan[ch].start = "new"
    /\ IF ~has_dispatcher(chan[ch], "addrs")
         THEN chan' = [chan EXCEPT ![ch].start = "panicked"]
         ELSE IF ~has_dispatcher(chan[ch], "getaddrs")
         THEN \E kept \in BOOLEAN :
                chan' = [chan EXCEPT
                           ![ch].subs = IF kept THEN subscribe_msg(chan[ch], "addrs") ELSE @,
                           ![ch].start = "panicked"]
         ELSE chan' = [chan EXCEPT
                  ![ch].subs = subscribe_msg([chan[ch] EXCEPT !.subs = subscribe_msg(chan[ch], "addrs")],
                                             "getaddrs"),
                  ![ch].addrs_sub = Len(chan[ch].subs) + 1,
                  ![ch].get_addrs_sub = Len(chan[ch].subs) + 2,
                  ![ch].start = "ready"]
    /\ UNCHANGED <<hosts, settings, clock, rpcVars, solVars>>

\* The self-announcement spawned on every session type.
StartAnnounce_AnySession(ch) ==
    /\ chan[ch].start = "ready"
    /\ chan' = [chan EXCEPT ![ch] =
                  [(IF settings.external_addr # <<>>
                      THEN spawn(chan[ch], "send_my_addrs", "send")
                      ELSE chan[ch])
                   EXCEPT !.start = "spawn_addrs"]]
    /\ UNCHANGED <<hosts, settings, clock, rpcVars, solVars>>

\* lines 132-139
StartAnnounce(ch) ==
    /\ chan[ch].start = "ready"
    /\ chan' = [chan EXCEPT ![ch] =
                  [(IF chan[ch].session = SESSION_OUTBOUND /\ settings.external_addr # <<>>
                      THEN spawn(chan[ch], "send_my_addrs", "send")
                      ELSE chan[ch])
                   EXCEPT !.start = "spawn_addrs"]]
    /\ UNCHANGED <<hosts, settings, clock, rpcVars, solVars>>

\* The receive loop started with no record in the jobs manager.
StartRecvAddrs_Detached(ch) ==
    /\ chan[ch].start = "spawn_addrs"
    /\ chan' = [chan EXCEPT ![ch] =
                  [spawn_Detached(chan[ch], "handle_receive_addrs", "receive")
                   EXCEPT !.start = "spawn_get_addrs"]]
    /\ UNCHANGED <<hosts, settings, clock, rpcVars, solVars>>

\* lines 141-143
StartRecvAddrs(ch) ==
    /\ chan[ch].start = "spawn_addrs"
    /\ chan' = [chan EXCEPT ![ch] =
                  [spawn(chan[ch], "handle_receive_addrs", "receive")
                   EXCEPT !.start = "spawn_get_addrs"]]
    /\ UNCHANGED <<hosts, settings, clock, rpcVars, solVars>>

\* A reply loop that makes its own subscription when it is started.
StartRecvGetAddrs_SubscribesItself(ch) ==
    /\ chan[ch].start = "spawn_get_addrs"
    /\ chan' = [chan EXCEPT ![ch] =
                  [spawn(chan[ch], "handle_receive_get_addrs", "receive")
                   EXCEPT !.start = "send_get_addrs",
                          !.subs = subscribe_msg(chan[ch], "getaddrs"),
                          !.get_addrs_sub = Len(chan[ch].subs) + 1]]
    /\ UNCHANGED <<hosts, settings, clock, rpcVars, solVars>>

\* line 144
StartRecvGetAddrs(ch) ==
    /\ chan[ch].start = "spawn_get_addrs"
    /\ chan' = [chan EXCEPT ![ch] =
                  [spawn(chan[ch], "handle_receive_get_addrs", "receive")
                   EXCEPT !.start = "send_get_addrs"]]
    /\ UNCHANGED <<hosts, settings, clock, rpcVars, solVars>>

\* A start that returns the error of its send.
StartGetAddrs_Propagates(ch) ==
    /\ chan[ch].start = "send_get_addrs"
    /\ \E ok \in SendOutcomes(chan[ch]) :
         chan' = [chan EXCEPT ![ch] =
                    [channel_send(chan[ch], Out(GetAddrsMessage(0), "start", <<>>, 0), ok)
                     EXCEPT !.start = IF ok THEN "started" ELSE "failed"]]
    /\ UNCHANGED <<hosts, settings, clock, rpcVars, solVars>>

\* lines 146-150: the result of the send is dropped
StartGetAddrs(ch) ==
    /\ chan[ch].start = "send_get_addrs"
    /\ \E ok \in SendOutcomes(chan[ch]) :
         chan' = [chan EXCEPT ![ch] =
                    [channel_send(chan[ch], Out(GetAddrsMessage(0), "start", <<>>, 0), ok)
                     EXCEPT !.start = "started"]]
    /\ UNCHANGED <<hosts, settings, clock, rpcVars, solVars>>

(***************************************************************************)
(* handle_receive_addrs, lines 65-93                                       *)
(***************************************************************************)
\* lines 68-91: a message is received, filtered, and hosts.store is called
ReceiveAddrs(ch) ==
    /\ chan[ch].tasks["handle_receive_addrs"] = "receive"
    /\ IF chan[ch].closed
         THEN chan' = [chan EXCEPT ![ch].tasks["handle_receive_addrs"] = "ended"]
         ELSE /\ chan[ch].subs[chan[ch].addrs_sub].queue # <<>>
              /\ LET addrs_msg == Head(chan[ch].subs[chan[ch].addrs_sub].queue)
                     addrs == StoreArg(settings.localnet, addrs_msg.addrs)
                 IN  chan' = [chan EXCEPT
                                ![ch].subs = Received(@, chan[ch].addrs_sub),
                                ![ch].stored = Append(@, addrs),
                                ![ch].pending = addrs,
                                ![ch].tasks["handle_receive_addrs"] = "store"]
    /\ UNCHANGED <<hosts, settings, clock, rpcVars, solVars>>

\* line 91: hosts.store at work, one address at a time, and its return
HostsStore(ch) ==
    /\ chan[ch].tasks["handle_receive_addrs"] = "store"
    /\ IF chan[ch].pending = <<>>
         THEN /\ chan' = [chan EXCEPT ![ch].tasks["handle_receive_addrs"] = "receive"]
              /\ UNCHANGED hosts
         ELSE /\ hosts' = HostsInsert(hosts, Head(chan[ch].pending))
              /\ chan' = [chan EXCEPT ![ch].pending = Tail(@)]
    /\ UNCHANGED <<settings, clock, rpcVars, solVars>>

(***************************************************************************)
(* handle_receive_get_addrs, lines 98-113                                  *)
(***************************************************************************)
\* line 101
ReceiveGetAddrs(ch) ==
    /\ chan[ch].tasks["handle_receive_get_addrs"] = "receive"
    /\ IF chan[ch].closed
         THEN chan' = [chan EXCEPT ![ch].tasks["handle_receive_get_addrs"] = "ended"]
         ELSE /\ chan[ch].subs[chan[ch].get_addrs_sub].queue # <<>>
              /\ chan' = [chan EXCEPT
                            ![ch].subs = Received(@, chan[ch].get_addrs_sub),
                            ![ch].tasks["handle_receive_get_addrs"] = "load"]
    /\ UNCHANGED <<hosts, settings, clock, rpcVars, solVars>>

\* line 106
LoadHosts(ch) ==
    /\ chan[ch].tasks["handle_receive_get_addrs"] = "load"
    /\ chan' = [chan EXCEPT ![ch].addrs = load_all(hosts),
                            ![ch].at = hosts,
                            ![ch].tasks["handle_receive_get_addrs"] = "send"]
    /\ UNCHANGED <<hosts, settings, clock, rpcVars, solVars>>

\* A reply whose failed send takes the sibling loops down with it.
ReplyAddrs_StopsSiblings(ch) ==
    /\ chan[ch].tasks["handle_receive_get_addrs"] = "send"
    /\ \E ok \in SendOutcomes(chan[ch]) :
         chan' = [chan EXCEPT ![ch] =
                    [channel_send(chan[ch],
                                  Out(AddrsMessage(chan[ch].addrs, 0),
                                      "handle_receive_get_addrs", chan[ch].at,
                                      Len(chan[ch].subs[chan[ch].get_addrs_sub].got)),
                                  ok)
                     EXCEPT !.tasks = [t \in Tasks |->
                                IF t = "handle_receive_get_addrs"
                                  THEN (IF ok THEN "receive" ELSE "ended")
                                  ELSE IF ~ok /\ Running(chan[ch], t) THEN "cancelled" ELSE @[t]]]]
    /\ UNCHANGED <<hosts, settings, clock, rpcVars, solVars>>

\* A reply cut to the addresses that pass the localnet filter.
ReplyAddrs_Filtered(ch) ==
    /\ chan[ch].tasks["handle_receive_get_addrs"] = "send"
    /\ \E ok \in SendOutcomes(chan[ch]) :
         chan' = [chan EXCEPT ![ch] =
                    [channel_send(chan[ch],
                                  Out(AddrsMessage(FilterLoop(chan[ch].addrs, <<>>), 0),
                                      "handle_receive_get_addrs", chan[ch].at,
                                      Len(chan[ch].subs[chan[ch].get_addrs_sub].got)),
                                  ok)
                     EXCEPT !.tasks["handle_receive_get_addrs"] = IF ok THEN "receive" ELSE "ended"]]
    /\ UNCHANGED <<hosts, settings, clock, rpcVars, solVars>>

\* lines 109-111
ReplyAddrs(ch) ==
    /\ chan[ch].tasks["handle_receive_get_addrs"] = "send"
    /\ \E ok \in SendOutcomes(chan[ch]) :
         chan' = [chan EXCEPT ![ch] =
                    [channel_send(chan[ch],
                                  Out(AddrsMessage(chan[ch].addrs, 0),
                                      "handle_receive_get_addrs", chan[ch].at,
                                      Len(chan[ch].subs[chan[ch].get_addrs_sub].got)),
                                  ok)
                     EXCEPT !.tasks["handle_receive_get_addrs"] = IF ok THEN "receive" ELSE "ended"]]
    /\ UNCHANGED <<hosts, settings, clock, rpcVars, solVars>>

(***************************************************************************)
(* send_my_addrs, lines 115-123                                            *)
(***************************************************************************)
SEND_ADDR_SLEEP_SECONDS == 900

\* An announcement whose failed send is passed over: the loop sleeps and goes on.
SendMyAddrs_ErrorIgnored(ch) ==
    /\ chan[ch].tasks["send_my_addrs"] = "send"
    /\ \E ok \in SendOutcomes(chan[ch]) :
         chan' = [chan EXCEPT ![ch] =
                    [channel_send(chan[ch],
                                  Out(AddrsMessage(settings.external_addr, 0),
                                      "send_my_addrs", <<>>, 0),
                                  ok)
                     EXCEPT !.tasks["send_my_addrs"] = "sleep",
                            !.rounds = @ + 1,
                            !.wake = clock + SEND_ADDR_SLEEP_SECONDS]]
    /\ UNCHANGED <<hosts, settings, clock, rpcVars, solVars>>

\* lines 118-121: the send, and the sleep set to end SEND_ADDR_SLEEP_SECONDS later
SendMyAddrs(ch) ==
    /\ chan[ch].tasks["send_my_addrs"] = "send"
    /\ \E ok \in SendOutcomes(chan[ch]) :
         chan' = [chan EXCEPT ![ch] =
                    [channel_send(chan[ch],
                                  Out(AddrsMessage(settings.external_addr, 0),
                                      "send_my_addrs", <<>>, 0),
                                  ok)
                     EXCEPT !.tasks["send_my_addrs"] = IF ok THEN "sleep" ELSE "ended",
                            !.rounds = @ + 1,
                            !.wake = IF ok THEN clock + SEND_ADDR_SLEEP_SECONDS ELSE @]]
    /\ UNCHANGED <<hosts, settings, clock, rpcVars, solVars>>

\* line 121: the sleep is over
Sleep(ch) ==
    /\ chan[ch].tasks["send_my_addrs"] = "sleep"
    /\ chan[ch].rounds <= MaxAnnounce
    /\ chan' = [chan EXCEPT ![ch].tasks["send_my_addrs"] = "send"]
    /\ UNCHANGED <<hosts, settings, clock, rpcVars, solVars>>

\* A sleep that ends at any time.
SleepTimed_NoTimer(ch) == Sleep(ch)

\* line 121, with the time: the sleep is over once its seconds have passed
SleepTimed(ch) ==
    /\ clock >= chan[ch].wake
    /\ Sleep(ch)

\* Time passes, half a sleep at a time.
MaxTicks == 3
TickSeconds == SEND_ADDR_SLEEP_SECONDS \div 2

Tick ==
    /\ clock < MaxTicks * TickSeconds
    /\ clock' = clock + TickSeconds
    /\ UNCHANGED <<hosts, settings, chan, rpcVars, solVars>>

\* ProtocolAddress::start, from its call to its return
StartStep(ch) ==
    \/ StartAnnounce(ch)
    \/ StartRecvAddrs(ch)
    \/ StartRecvGetAddrs(ch)
    \/ StartGetAddrs(ch)

\* The two receive loops
ReceiveStep(ch) ==
    \/ ReceiveAddrs(ch)
    \/ HostsStore(ch)
    \/ ReceiveGetAddrs(ch)
    \/ LoadHosts(ch)
    \/ ReplyAddrs(ch)

\* One channel with its peer, from the creation of the protocol to the
\* teardown of the channel.
NetNext ==
    \E ch \in OneChan :
        \/ ProtoInit(ch)
        \/ StartStep(ch)
        \/ ReceiveStep(ch)
        \/ SendMyAddrs(ch)
        \/ Sleep(ch)
        \/ AddrsFrame(ch)
        \/ GetAddrsFrame(ch)
        \/ Close(ch)
        \/ JobsStop(ch)

SpecNet == NetInit /\ [][NetNext]_vars

\* One channel whose peer sends one Addrs message, with any list of addresses.
FilterInit ==
    /\ hosts = <<>>
    /\ settings \in {s \in Settings : s.external_addr = <<>>}
    /\ chan \in [OneChan -> {NewChannel(s) : s \in SessionTypes}]
    /\ clock = 0
    /\ RpcIdle
    /\ SolIdle

FilterNext ==
    \E ch \in OneChan :
        \/ ProtoInit(ch)
        \/ StartStep(ch)
        \/ AddrsFrameAny(ch)
        \/ ReceiveAddrs(ch)
        \/ HostsStore(ch)

SpecFilter == FilterInit /\ [][FilterNext]_vars

\* One open channel on which other protocols subscribe as well.
BusInit ==
    /\ hosts = <<>>
    /\ settings = [localnet |-> FALSE, external_addr |-> <<>>]
    /\ chan = [ch \in OneChan |-> NewChannel("inbound")]
    /\ clock = 0
    /\ RpcIdle
    /\ SolIdle

BusNext ==
    \E ch \in OneChan :
        \/ ProtoInit(ch)
        \/ StartStep(ch)
        \/ ReceiveStep(ch)
        \/ OtherSubscribe(ch)
        \/ OtherReceive(ch)
        \/ AddrsFrame(ch)
        \/ GetAddrsFrame(ch)

SpecBus == BusInit /\ [][BusNext]_vars

\* Several open channels that share the Hosts store, in local-network mode
\* (every address received is stored); their peers send once the protocol has
\* started.
HostsInit ==
    /\ hosts = <<>>
    /\ settings = [localnet |-> TRUE, external_addr |-> <<>>]
    /\ chan = [ch \in ChanIds |-> NewChannel("inbound")]
    /\ clock = 0
    /\ RpcIdle
    /\ SolIdle

HostsNext ==
    \E ch \in ChanIds :
        \/ ProtoInit(ch)
        \/ StartStep(ch)
        \/ ReceiveStep(ch)
        \/ AddrsFrameStarted(ch)
        \/ GetAddrsFrameStarted(ch)

SpecHosts == HostsInit /\ [][HostsNext]_vars

\* One channel of a node with an external address, from the creation of the
\* protocol to the teardown; its peer sends once the protocol has started.
CloseInit ==
    /\ hosts = <<>>
    /\ settings = [localnet |-> FALSE, external_addr |-> <<External>>]
    /\ chan \in [OneChan -> {NewChannel(s) : s \in SessionTypes}]
    /\ clock = 0
    /\ RpcIdle
    /\ SolIdle

CloseNext ==
    \E ch \in OneChan :
        \/ ProtoInit(ch)
        \/ StartStep(ch)
        \/ ReceiveStep(ch)
        \/ SendMyAddrs(ch)
        \/ Sleep(ch)
        \/ AddrsFrameStarted(ch)
        \/ GetAddrsFrameStarted(ch)
        \/ Close(ch)
        \/ JobsStop(ch)

\* An outbound channel of a node with an external address, its peer silent,
\* with the time that passes.
AnnounceInit ==
    /\ hosts = <<>>
    /\ settings \in {st \in Settings : st.external_addr # <<>>}
    /\ chan = [ch \in OneChan |-> NewChannel(SESSION_OUTBOUND)]
    /\ clock = 0
    /\ RpcIdle
    /\ SolIdle

AnnounceNext ==
    \/ Tick
    \/ \E ch \in OneChan :
        \/ ProtoInit(ch)
        \/ StartStep(ch)
        \/ ReceiveAddrs(ch)
        \/ ReceiveGetAddrs(ch)
        \/ SendMyAddrs(ch)
        \/ SleepTimed(ch)
        \/ Close(ch)
        \/ JobsStop(ch)

SpecAnnounce == AnnounceInit /\ [][AnnounceNext]_vars

\* One open inbound channel, set up with any of the dispatchers.
DispatchInit ==
    /\ hosts = <<>>
    /\ settings = [localnet |-> FALSE, external_addr |-> <<>>]
    /\ chan \in [OneChan -> {ChannelWith("inbound", d) : d \in SUBSET MessageTypes}]
    /\ clock = 0
    /\ RpcIdle
    /\ SolIdle

DispatchNext ==
    \E ch \in OneChan :
        \/ ProtoInit(ch)
        \/ StartStep(ch)
        \/ ReceiveStep(ch)
        \/ AddrsFrame(ch)
        \/ GetAddrsFrame(ch)

SpecDispatch == DispatchInit /\ [][DispatchNext]_vars

\* What the executor and the teardown of a channel do sooner or later: a task
\* that can take its next step takes it, a sleep ends, stop is called on the
\* manager of a closed channel.  Frames and the close itself are the peer's.
Scheduled ==
    \E ch \in OneChan :
        \/ ProtoInit(ch)
        \/ StartStep(ch)
        \/ ReceiveStep(ch)
        \/ SendMyAddrs(ch)
        \/ Sleep(ch)
        \/ JobsStop(ch)

SpecClose == CloseInit /\ [][CloseNext]_vars /\ WF_vars(Scheduled)

(***************************************************************************)
(* The Solana client of the bridge, src/service/sol.rs: watch() and the    *)
(* account notifications read from the websocket by run / read_ws_msg.     *)
(***************************************************************************)
MaxLamports == 2
MaxNotifs == 2

Lamports == 0..MaxLamports

\* The id the server gave to the subscription of a key.
SubIdOf(k) == IF k = "k1" THEN 1 ELSE 2

\* One step of read_ws_msg on notification n, for the record.
SolEvent(n, ev, cur) ==
    [n |-> n, ev |-> ev, owner |-> cur.owner, new_bal |-> cur.new_bal,
     old_balance |-> cur.old_balance, sub_id |-> cur.sub_id]

\* lines 211-228: watch() generates a fresh key and reads its balance (an Err
\* of get_balance returns from watch with nothing done)
WatchBalance(k, balance) ==
    /\ sol.watching[k].at = 0
    /\ sol' = [sol EXCEPT !.watching[k] = [at |-> 1, balance |-> balance]]
    /\ UNCHANGED <<rpcVars, netVars>>

\* The request enqueued before the key is recorded.
WatchOrder_SendFirst == <<"send", "insert">>

\* lines 230-235: the two awaits of watch() after the balance, in their order
WatchOrder == <<"insert", "send">>

\* lines 230-233: subscriptions.lock().await.insert(pubkey, (keypair, balance))
WatchInsert(k) ==
    [sol EXCEPT !.subscriptions[k] = [watched |-> TRUE, balance |-> sol.watching[k].balance],
                !.watching[k].at = @ + 1]

\* line 235: watch_channel.0.send(sub_msg).await
WatchSend(k) ==
    [sol EXCEPT !.watch_channel = Append(@, [method |-> "accountSubscribe", key |-> k,
                                             sub_id |-> 0]),
                !.watching[k].at = @ + 1]

\* lines 230-239: the next await of a watch() under way, up to its return
WatchStep(k) ==
    /\ sol.watching[k].at \in DOMAIN WatchOrder
    /\ sol' = IF WatchOrder[sol.watching[k].at] = "insert" THEN WatchInsert(k) ELSE WatchSend(k)
    /\ UNCHANGED <<rpcVars, netVars>>

\* lines 87-95: the task spawned by run takes the next request off the watch
\* channel and writes it to the websocket; an Err of the write ends the task
SolWrite(ok) ==
    /\ sol.writer = "running"
    /\ sol.forwarded < Len(sol.watch_channel)
    /\ sol' = IF ok THEN [sol EXCEPT !.forwarded = @ + 1]
                     ELSE [sol EXCEPT !.writer = "ended"]
    /\ UNCHANGED <<rpcVars, netVars>>

\* The keys whose accountSubscribe has reached the server.
ServerSubscribed ==
    {sol.watch_channel[i].key :
        i \in {j \in 1..sol.forwarded : sol.watch_channel[j].method = "accountSubscribe"}}

\* line 149
IsDeposit(new_bal, old_balance) == new_bal > old_balance

\* lines 134-149 and 172: the notification is parsed, the recorded balance is
\* looked up and compared.  An Err of read_ws_msg meets the expect of run
\* (lines 99-104) and the index of line 143 panics on a key not recorded.
\* The entry is looked up by the owner field of the notification (line 139);
\* sub is the key whose subscription the notification comes from, known to
\* the handler by its id only (line 145).
read_ws_msg(sub, owner, new_bal, wellformed) ==
    /\ sol.pc = "idle"
    /\ sol.n < MaxNotifs
    /\ IF ~wellformed
         THEN sol' = [sol EXCEPT !.pc = "panicked"]
         ELSE IF ~sol.subscriptions[owner].watched
         THEN sol' = [sol EXCEPT !.pc = "panicked",
                                 !.no_entry = @ \cup {[sub |-> sub, owner |-> owner]}]
         ELSE LET cur == [owner |-> owner, new_bal |-> new_bal,
                          old_balance |-> sol.subscriptions[owner].balance,
                          sub_id |-> SubIdOf(sub)]
              IN  sol' = [sol EXCEPT
                            !.cur = cur,
                            !.n = @ + 1,
                            !.log = Append(@, SolEvent(sol.n + 1, "notification", cur)),
                            !.pc = IF IsDeposit(cur.new_bal, cur.old_balance) THEN "forward"
                                   ELSE IF cur.new_bal < cur.old_balance THEN "unsubscribe"
                                   ELSE "idle"]
    /\ UNCHANGED <<rpcVars, netVars>>

\* A notification of the account owner, whose owner field names that account.
SolNotification(owner, new_bal, wellformed) == read_ws_msg(owner, owner, new_bal, wellformed)

\* A forward whose failure is passed over.
SolForward_FailureIgnored(ok) ==
    /\ sol.pc = "forward"
    /\ sol' = [sol EXCEPT
                 !.log = Append(@, SolEvent(sol.n, IF ok THEN "forward" ELSE "forward_failed", sol.cur)),
                 !.pc = "notify"]
    /\ UNCHANGED <<rpcVars, netVars>>

\* lines 150-154 (and 180-196): the funds of the key are sent to the main
\* account; `?` on its Err, which the expect of run turns into a panic
SolForward(ok) ==
    /\ sol.pc = "forward"
    /\ sol' = [sol EXCEPT
                 !.log = Append(@, SolEvent(sol.n, IF ok THEN "forward" ELSE "forward_failed", sol.cur)),
                 !.pc = IF ok THEN "notify" ELSE "panicked"]
    /\ UNCHANGED <<rpcVars, netVars>>

\* lines 156-163: (pubkey, received_balance) goes on the notify channel, of
\* which the client holds both ends
SolNotify ==
    /\ sol.pc = "notify"
    /\ sol' = [sol EXCEPT
                 !.notify_channel = Append(@, [pubkey |-> sol.cur.owner,
                                               amount |-> sol.cur.new_bal - sol.cur.old_balance]),
                 !.log = Append(@, SolEvent(sol.n, "notify", sol.cur)),
                 !.pc = "unsubscribe"]
    /\ UNCHANGED <<rpcVars, netVars>>

\* lines 165 and 173 (198-205): accountUnsubscribe goes on the watch channel
SolUnsubscribe ==
    /\ sol.pc = "unsubscribe"
    /\ sol' = [sol EXCEPT
                 !.watch_channel = Append(@, [method |-> "accountUnsubscribe", key |-> "",
                                              sub_id |-> sol.cur.sub_id]),
                 !.log = Append(@, SolEvent(sol.n, "unsubscribe", sol.cur)),
                 !.pc = "idle"]
    /\ UNCHANGED <<rpcVars, netVars>>

SolInit ==
    /\ RpcIdle
    /\ NetIdle
    /\ SolIdle

\* A notification the server makes for a subscription it was asked for; what
\* it writes into the owner field is the server's choice.
SubscribedNotification(sub, owner, new_bal) ==
    /\ sub \in ServerSubscribed
    /\ read_ws_msg(sub, owner, new_bal, TRUE)

SolNext ==
    \/ \E k \in SolKeys, balance \in Lamports : WatchBalance(k, balance)
    \/ \E k \in SolKeys : WatchStep(k)
    \/ \E owner \in SolKeys, new_bal \in Lamports, wellformed \in BOOLEAN :
          SolNotification(owner, new_bal, wellformed)
    \/ \E ok \in BOOLEAN : SolForward(ok)
    \/ SolNotify
    \/ SolUnsubscribe

SpecSol == SolInit /\ [][SolNext]_vars

\* The client with its server: every notification comes from a subscription
\* that was requested through watch() and written to the websocket.
WatchNext ==
    \/ \E k \in SolKeys, balance \in Lamports : WatchBalance(k, balance)
    \/ \E k \in SolKeys : WatchStep(k)
    \/ \E ok \in BOOLEAN : SolWrite(ok)
    \/ \E sub \in SolKeys, owner \in SolKeys, new_bal \in Lamports :
          SubscribedNotification(sub, owner, new_bal)
    \/ \E ok \in BOOLEAN : SolForward(ok)
    \/ SolNotify
    \/ SolUnsubscribe

SpecWatch == SolInit /\ [][WatchNext]_vars

(***************************************************************************)
(* Shorthands for the properties.                                          *)
(***************************************************************************)
SingleString(params) == Len(params) = 1 /\ is_string(params[1])

\* Lines 130-160 of tx.broadcast never run: a call that passes line 112 carries
\* no string, and line 122 unwraps the None that as_str() gives for it.
BroadcastBodyUnreachable ==
    \A c \in CallIds :
        calls[c].method = "tx.broadcast" =>
            /\ calls[c].pc \notin {"readguard", "snapshot", "simulate", "p2p"}
            /\ calls[c].did = {}
            /\ calls[c].result.kind # "result"

(***************************************************************************)
(* The claims.                                                             *)
(***************************************************************************)

\* C1: a tx.broadcast call on a synced node whose parameter is the encoding of
\* a transaction that the dry run rejects, whatever the state it is run on,
\* returns TxSimulationFail and broadcasts nothing.
C1_FailedDryRunReported ==
    \A c \in CallIds :
        ( /\ calls[c].method = "tx.broadcast"
          /\ Done(c)
          /\ SingleString(calls[c].params)
          /\ IsTxEncoding(calls[c].params[1].val)
          /\ calls[c].pre.synced
          /\ \A mem_state \in SUBSET Nullifiers :
                ~validate_state_transitions(mem_state, Deserialize(calls[c].params[1].val)) )
        => /\ calls[c].result = JsonError("TxSimulationFail")
           /\ calls[c].bcasts = <<>>

\* C5: a tx.transfer call with well-formed parameters that finds the synced
\* flag false returns NotYetSynced, and a call that returned NotYetSynced has
\* decoded nothing, has not touched the ledger handle, has built no
\* transaction and has broadcast nothing.
C5_UnsyncedTransferHasNoEffect ==
    \A c \in CallIds :
        (calls[c].method = "tx.transfer" /\ ~TransferParamsInvalid(calls[c].params)) =>
            /\ (Done(c) /\ ~synced) => calls[c].result = JsonError("NotYetSynced")
            /\ calls[c].sawSynced = "no" => calls[c].result = JsonError("NotYetSynced")
            /\ calls[c].result = JsonError("NotYetSynced") =>
                 /\ calls[c].did = {}
                 /\ calls[c].bcasts = <<>>
                 /\ calls[c].tx = NoTx
                 /\ c \notin readers

\* C5's case: a well-formed tx.transfer has been answered NotYetSynced.
C5_Witness ==
    \E c \in CallIds :
        /\ calls[c].method = "tx.transfer"
        /\ ~TransferParamsInvalid(calls[c].params)
        /\ ~calls[c].pre.synced
        /\ calls[c].result = JsonError("NotYetSynced")

\* C6: a tx.broadcast call given one string while the synced flag is false
\* (it still is, so it was throughout the call) returns NotYetSynced and has
\* decoded, snapshotted, simulated and broadcast nothing.
C6_UnsyncedBroadcastNotYetSynced ==
    \A c \in CallIds :
        ( /\ calls[c].method = "tx.broadcast"
          /\ Done(c)
          /\ SingleString(calls[c].params)
          /\ ~synced )
        => /\ calls[c].result = JsonError("NotYetSynced")
           /\ calls[c].did = {}
           /\ calls[c].bcasts = <<>>

\* C7: a tx.broadcast call on a synced node given one string that is not
\* base-58, or is base-58 of something that is no transaction, returns
\* ParseError and has simulated and broadcast nothing.
C7_UnparseableBroadcastParseError ==
    \A c \in CallIds :
        ( /\ calls[c].method = "tx.broadcast"
          /\ Done(c)
          /\ SingleString(calls[c].params)
          /\ ~IsTxEncoding(calls[c].params[1].val)
          /\ calls[c].pre.synced )
        => /\ calls[c].result = JsonError("ParseError")
           /\ "simulate" \notin calls[c].did
           /\ calls[c].bcasts = <<>>

\* C8: tx.broadcast answers InvalidParams exactly when its parameter list is
\* not a single string: a call past the parameter test carries one string, and
\* a finished call was answered InvalidParams iff it carried anything else.
C8_InvalidParamsIffNotSingleString ==
    \A c \in CallIds :
        calls[c].method = "tx.broadcast" =>
            /\ calls[c].pc \notin {"idle", "params", "done"} => SingleString(calls[c].params)
            /\ Done(c) =>
                 ((calls[c].result = JsonError("InvalidParams")) <=> ~SingleString(calls[c].params))

\* C9: every finished call, whatever its parameter list and the synced flag,
\* ended in a result or in one of the typed error codes, never in a panic.
C9_StructuredOutcome ==
    \A c \in CallIds :
        Done(c) =>
            \/ calls[c].result.kind = "result"
            \/ /\ calls[c].result.kind = "error"
               /\ \E code \in ErrorCodes : calls[c].result = JsonError(code)

\* C10: in a tx.transfer call past the synced gate the first failing step
\* decides the error and ends the call: no later step has run, no guard is
\* held and nothing was broadcast.
C10_FirstFailureDecides ==
    \A c \in CallIds :
        ( /\ calls[c].method = "tx.transfer"
          /\ calls[c].pc \notin {"idle", "params", "synced", "parse"}
          /\ calls[c].sawSynced = "yes" )
        => LET address == calls[c].params[1].val
               token == calls[c].params[2].val
               stopped == /\ Done(c) /\ calls[c].bcasts = <<>>
                          /\ calls[c].tx = NoTx /\ c \notin readers
           IN /\ ~AddressFromStr(address) =>
                   /\ calls[c].result = JsonError("InvalidAddressParam")
                   /\ calls[c].did = {"address"}
                   /\ stopped
              /\ (AddressFromStr(address) /\ ~PublicKeyFromAddress(address)) =>
                   /\ calls[c].result = JsonError("ParseError")
                   /\ calls[c].did = {"address", "pubkey"}
                   /\ stopped
              /\ (PublicKeyFromAddress(address) /\ ~TokenParseB58(token)) =>
                   /\ calls[c].result = JsonError("ParseError")
                   /\ calls[c].did = {"address", "pubkey", "token"}
                   /\ stopped
              /\ (Done(c) /\ "build" \in calls[c].did /\ calls[c].tx = NoTx) =>
                   /\ calls[c].result = JsonError("TxBuildFail")
                   /\ calls[c].did = {"address", "pubkey", "token", "ledger", "build"}
                   /\ stopped
              /\ calls[c].result = JsonError("TxBuildFail") =>
                   ("build" \in calls[c].did /\ stopped)

\* C10's case: a call stopped at the token decoder, after the address and the
\* public key went through.
C10_Witness ==
    \E c \in CallIds :
        /\ calls[c].method = "tx.transfer"
        /\ Done(c)
        /\ calls[c].sawSynced = "yes"
        /\ PublicKeyFromAddress(calls[c].params[1].val)
        /\ ~TokenParseB58(calls[c].params[2].val)
        /\ calls[c].result = JsonError("ParseError")

\* A finished call that got as far as the broadcast step: tx.transfer with a
\* transaction built, tx.broadcast with a transaction that passed the dry run.
ReachedBroadcast(c) ==
    /\ Done(c)
    /\ calls[c].tx # NoTx
    /\ \/ calls[c].method = "tx.transfer" /\ "build" \in calls[c].did
       \/ /\ calls[c].method = "tx.broadcast"
          /\ "simulate" \in calls[c].did
          /\ validate_state_transitions(calls[c].snap, calls[c].tx)

\* C11: in both entry points a call answers with a transaction id only after a
\* call of sync_p2p.broadcast that returned success; a call that reached the
\* broadcast step with no sync P2P network, or whose broadcast failed, answers
\* TxBroadcastFail.
C11_IdOnlyAfterBroadcastOk ==
    \A c \in CallIds :
        /\ calls[c].result.kind = "result" =>
             /\ sync_p2p
             /\ calls[c].bcasts # <<>>
             /\ calls[c].bcasts[Len(calls[c].bcasts)].ok
        /\ (ReachedBroadcast(c) /\ ~sync_p2p) =>
             (calls[c].result = JsonError("TxBroadcastFail") /\ calls[c].bcasts = <<>>)
        /\ (ReachedBroadcast(c) /\ \E i \in 1..Len(calls[c].bcasts) : ~calls[c].bcasts[i].ok) =>
             calls[c].result = JsonError("TxBroadcastFail")

\* C11's case: a call built its transaction, the broadcast failed and the call
\* was answered TxBroadcastFail.
C11_Witness ==
    \E c \in CallIds :
        /\ ReachedBroadcast(c)
        /\ calls[c].bcasts # <<>>
        /\ ~calls[c].bcasts[1].ok
        /\ calls[c].result = JsonError("TxBroadcastFail")

\* C12: a call makes at most one call of sync_p2p.broadcast, a call answered
\* with an id made exactly one, and the transaction broadcast is the call's
\* own (built, or decoded and simulated) and the one whose hash is the id.
C12_OneBroadcastOfTheHashedTx ==
    \A c \in CallIds :
        /\ Len(calls[c].bcasts) <= 1
        /\ \A i \in 1..Len(calls[c].bcasts) :
             /\ calls[c].bcasts[i].tx = calls[c].tx
             /\ calls[c].tx # NoTx
             /\ calls[c].method = "tx.broadcast" => "simulate" \in calls[c].did
        /\ calls[c].result.kind = "result" =>
             /\ Len(calls[c].bcasts) = 1
             /\ calls[c].result.val = tx_hash(calls[c].bcasts[1].tx)

\* C12's case: a call was answered with an id after its one broadcast.
C12_Witness ==
    \E c \in CallIds :
        /\ calls[c].result.kind = "result"
        /\ Len(calls[c].bcasts) = 1
        /\ calls[c].bcasts[1].ok

\* The answers given with an id so far, those already delivered and those a
\* finished call holds.
Answers ==
    issued \cup {[bytes |-> serialize(calls[c].tx), id |-> calls[c].result.val] :
                    c \in {d \in CallIds : calls[d].result.kind = "result"}}

AddrsReceived(c) == IF c.addrs_sub = 0 THEN <<>> ELSE c.subs[c.addrs_sub].got

Routable(addr) == addr.host # "" /\ addr.host \notin LocalHosts

\* C13: with settings.localnet false, the list handed to hosts.store for an
\* inbound Addrs message is the received list without the addresses whose
\* host is empty or one of the five localnet literals, the others in their
\* order; there is one store call for each message received.
C13_StoredIsReceivedWithoutLocal ==
    \A ch \in DOMAIN chan :
        ~settings.localnet =>
            /\ Len(chan[ch].stored) = Len(AddrsReceived(chan[ch]))
            /\ \A i \in 1..Len(chan[ch].stored) :
                 chan[ch].stored[i] = SelectSeq(AddrsReceived(chan[ch])[i].addrs, Routable)

\* C13's case: the list [empty host, 127.0.0.1, 203.0.113.5:8000] was received
\* and [203.0.113.5:8000] was handed to the store and stored.
C13_Witness ==
    \E ch \in DOMAIN chan :
        /\ ~settings.localnet
        /\ Len(chan[ch].stored) = 1
        /\ AddrsReceived(chan[ch])[1].addrs = <<EmptyHost, Loopback, PubA>>
        /\ chan[ch].stored[1] = <<PubA>>
        /\ chan[ch].tasks["handle_receive_addrs"] = "receive"
        /\ hosts = <<PubA>>

\* C14: with settings.localnet true, the list handed to hosts.store is the
\* received list as it came, loopback, any-interface and empty-host addresses
\* included.
C14_StoredIsReceived ==
    \A ch \in DOMAIN chan :
        settings.localnet =>
            /\ Len(chan[ch].stored) = Len(AddrsReceived(chan[ch]))
            /\ \A i \in 1..Len(chan[ch].stored) :
                 chan[ch].stored[i] = AddrsReceived(chan[ch])[i].addrs

\* C14's case: a list with an empty-host and a loopback address was received
\* in local-network mode and handed to the store whole.
C14_Witness ==
    \E ch \in DOMAIN chan :
        /\ settings.localnet
        /\ Len(chan[ch].stored) = 1
        /\ chan[ch].stored[1] = <<EmptyHost, Loopback, PubA>>
        /\ chan[ch].tasks["handle_receive_addrs"] = "receive"
        /\ hosts = <<EmptyHost, Loopback, PubA>>

\* The GetAddrs requests the loop of a channel took from its subscription, and
\* the replies it wrote.
GetAddrsReceived(c) == IF c.get_addrs_sub = 0 THEN <<>> ELSE c.subs[c.get_addrs_sub].got
ByReplyLoop(out) == out.by = "handle_receive_get_addrs"
Replies(c) == SelectSeq(c.sent, ByReplyLoop)

\* C15: the replies of the receive-GetAddrs loop answer the requests it took,
\* one Addrs message each and in their order; a reply holds every address the
\* Hosts store held when the request was handled; the loop takes the next
\* request only after the reply to the one before, and while it waits for a
\* request every request taken has its reply.
C15_OneFullReplyPerRequest ==
    \A ch \in DOMAIN chan :
        LET c == chan[ch]
            replies == Replies(c)
            taken == Len(GetAddrsReceived(c))
            pc == c.tasks["handle_receive_get_addrs"]
        IN  /\ \A i \in 1..Len(replies) :
                 /\ replies[i].re = i
                 /\ replies[i].msg.type = "addrs"
                 /\ Len(replies[i].msg.addrs) = Len(replies[i].at)
                 /\ Held(replies[i].msg.addrs) = Held(replies[i].at)
            /\ \A i \in 1..taken :
                 /\ GetAddrsReceived(c)[i].type = "getaddrs"
                 /\ i > 1 => GetAddrsReceived(c)[i - 1].no < GetAddrsReceived(c)[i].no
            /\ pc = "receive" => Len(replies) = taken
            /\ pc \in {"load", "send"} => Len(replies) = taken - 1

\* C15's case: a request was answered with the addresses of a store that was
\* not empty, and the loop waits for the next request.
C15_Witness ==
    \E ch \in DOMAIN chan :
        /\ Len(Replies(chan[ch])) = 1
        /\ Replies(chan[ch])[1].at # <<>>
        /\ Replies(chan[ch])[1].msg.addrs = Replies(chan[ch])[1].at
        /\ chan[ch].tasks["handle_receive_get_addrs"] = "receive"

Announces(c) == c.session = SESSION_OUTBOUND /\ settings.external_addr # <<>>
ByAnnounceLoop(out) == out.by = "send_my_addrs"

\* C16: start registers send_my_addrs exactly when the session is outbound and
\* external_addr is not empty; otherwise the jobs are the two receive loops,
\* the announce loop never runs and no announcement is sent on the channel.
C16_AnnounceIffOutboundWithAddr ==
    \A ch \in DOMAIN chan :
        LET c == chan[ch] IN
        /\ c.start \notin {"new", "ready"} => ("send_my_addrs" \in c.jobs <=> Announces(c))
        /\ c.start \in {"send_get_addrs", "started"} =>
             c.jobs \ {"send_my_addrs"} = {"handle_receive_addrs", "handle_receive_get_addrs"}
        /\ ~Announces(c) =>
             /\ c.tasks["send_my_addrs"] = "none"
             /\ "send_my_addrs" \notin c.jobs
             /\ SelectSeq(c.sent, ByAnnounceLoop) = <<>>

\* C16's case: start has returned on an inbound session of a node that has an
\* external address, and the two receive loops are the jobs.
C16_Witness ==
    \E ch \in DOMAIN chan :
        /\ chan[ch].session = "inbound"
        /\ settings.external_addr # <<>>
        /\ chan[ch].start = "started"
        /\ chan[ch].jobs = {"handle_receive_addrs", "handle_receive_get_addrs"}

\* What the loops of a channel have done: the store calls made, how far the
\* store in flight has come, and the messages the loops wrote.
ByLoop(out) == out.by # "start"
LoopEffects(c) == <<c.stored, c.pending, SelectSeq(c.sent, ByLoop)>>

\* C17: once the stop of the jobs manager of a channel has returned, the loops
\* spawned through it make no store call, no insert of a store in flight and
\* no send on the channel.
C17_NoLoopEffectAfterStop ==
    [][\A ch \in DOMAIN chan :
          chan[ch].stopped =>
              /\ LoopEffects(chan'[ch]) = LoopEffects(chan[ch])
              /\ hosts' = hosts]_vars

\* C17's case: the stop came while a store of the receive loop was in flight,
\* and the loop was cancelled with addresses left to insert.
C17_Witness ==
    \E ch \in DOMAIN chan :
        /\ chan[ch].stopped
        /\ chan[ch].tasks["handle_receive_addrs"] = "cancelled"
        /\ chan[ch].pending # <<>>

\* The frames a subscription is due: those of its type that arrived after it
\* was made, in the order of arrival.
Due(c, i) ==
    SelectSeq(c.frames, LAMBDA f : f.type = c.subs[i].type /\ f.no > c.subs[i].since)

\* C18: every subscription of a channel gets each frame of its type that
\* arrives while it is live, once and in the order of arrival, however many
\* subscriptions of that type there are, and no frame of another type.
C18_FanOut ==
    \A ch \in DOMAIN chan :
        \A i \in DOMAIN chan[ch].subs :
            chan[ch].subs[i].got \o chan[ch].subs[i].queue = Due(chan[ch], i)

\* C18's case: two subscriptions to Addrs have each received the same two
\* frames, and the GetAddrs subscription none.
C18_Witness ==
    \E ch \in DOMAIN chan :
        \E i, j \in DOMAIN chan[ch].subs :
            /\ i # j
            /\ chan[ch].subs[i].type = "addrs"
            /\ chan[ch].subs[j].type = "addrs"
            /\ Len(chan[ch].subs[i].got) = 2
            /\ chan[ch].subs[j].got = chan[ch].subs[i].got
            /\ \E k \in DOMAIN chan[ch].subs :
                 /\ chan[ch].subs[k].type = "getaddrs"
                 /\ chan[ch].subs[k].got \o chan[ch].subs[k].queue = <<>>

\* C19: whatever the interleaving of the stores and loads of the channels, the
\* Hosts store never holds an address twice, and a change of it is one
\* address of a store in flight, absent until then, added to what was held.
C19_HostsDedup ==
    /\ [](\A i, j \in DOMAIN hosts : hosts[i] = hosts[j] => i = j)
    /\ [][hosts' # hosts =>
             \E ch \in DOMAIN chan :
                 /\ chan[ch].pending # <<>>
                 /\ Head(chan[ch].pending) \notin Held(hosts)
                 /\ hosts' = Append(hosts, Head(chan[ch].pending))]_vars

\* C19's case: the stores of two channels are in flight at once, each with
\* addresses left to insert, one of them held already.
C19_Witness ==
    \E c1, c2 \in DOMAIN chan :
        /\ c1 # c2
        /\ chan[c1].tasks["handle_receive_addrs"] = "store"
        /\ chan[c2].tasks["handle_receive_addrs"] = "store"
        /\ chan[c1].pending # <<>>
        /\ chan[c2].pending # <<>>
        /\ Head(chan[c2].pending) \in Held(hosts)

(***************************************************************************)
(* C21: a loop that ends (its receive or its send failed) ends alone: in   *)
(* the step that ends it no other loop of the channel changes its          *)
(* position, the channel is neither closed nor stopped by it, the jobs     *)
(* recorded, the subscriptions and the Hosts store stay as they are; and a *)
(* loop ends on an open channel only through a failed send of its own.     *)
(***************************************************************************)
C21_FailureEndsThatLoopOnly ==
    [][\A ch \in DOMAIN chan : \A t \in Tasks :
         (chan[ch].tasks[t] # "ended" /\ chan'[ch].tasks[t] = "ended") =>
            /\ \A u \in Tasks \ {t} : chan'[ch].tasks[u] = chan[ch].tasks[u]
            /\ chan'[ch].closed = chan[ch].closed
            /\ chan'[ch].stopped = chan[ch].stopped
            /\ chan'[ch].jobs = chan[ch].jobs
            /\ chan'[ch].subs = chan[ch].subs
            /\ chan'[ch].stored = chan[ch].stored
            /\ hosts' = hosts
            /\ (~chan[ch].closed => chan[ch].tasks[t] = "send")]_vars

\* The reply loop has ended on its failed send; the channel is open and not
\* stopped, the receive loop is storing a list and the self-announcement sleeps.
C21_Witness ==
    \E ch \in DOMAIN chan :
        /\ chan[ch].tasks["handle_receive_get_addrs"] = "ended"
        /\ ~chan[ch].closed
        /\ ~chan[ch].stopped
        /\ chan[ch].tasks["handle_receive_addrs"] = "store"
        /\ chan[ch].pending # <<>>
        /\ chan[ch].tasks["send_my_addrs"] = "sleep"

(***************************************************************************)
(* C22, as stated: a self-announcement that sleeps when the channel closes *)
(* ends at that sleep and attempts no further send.                        *)
(***************************************************************************)
C22_SleeperAbortsAtSleep ==
    [][\A ch \in DOMAIN chan :
         (chan[ch].closed /\ chan[ch].tasks["send_my_addrs"] = "sleep") =>
            chan'[ch].tasks["send_my_addrs"] # "send"]_vars

(***************************************************************************)
(* C22, amended: on a closed channel nothing more is written to the peer;  *)
(* a loop waiting in receive or in send leaves it ended (or cancelled); a  *)
(* sleeping self-announcement is either cancelled by the stop of the jobs  *)
(* manager or wakes up into its send, which fails; and every loop of a     *)
(* closed channel terminates.                                              *)
(***************************************************************************)
C22_ClosedLoopsTerminate ==
    /\ [][\A ch \in DOMAIN chan : chan[ch].closed =>
            /\ chan'[ch].sent = chan[ch].sent
            /\ \A t \in Tasks :
                 (chan[ch].tasks[t] \in {"receive", "send"} /\ chan'[ch].tasks[t] # chan[ch].tasks[t])
                    => chan'[ch].tasks[t] \in {"ended", "cancelled"}
            /\ (chan[ch].tasks["send_my_addrs"] = "sleep"
                  /\ chan'[ch].tasks["send_my_addrs"] # "sleep")
                    => chan'[ch].tasks["send_my_addrs"] \in {"send", "cancelled"}]_vars
    /\ \A ch \in OneChan :
         chan[ch].closed ~> (chan[ch].start = "started" /\ \A t \in Tasks : ~Running(chan[ch], t))

\* A closed and stopped channel whose loops are all over, the self-announcement
\* at its second send, which failed, after one announcement that was written.
C22_Witness ==
    \E ch \in DOMAIN chan :
        /\ chan[ch].closed
        /\ chan[ch].stopped
        /\ chan[ch].start = "started"
        /\ chan[ch].tasks["send_my_addrs"] = "ended"
        /\ chan[ch].rounds = 2
        /\ Cardinality({i \in DOMAIN chan[ch].sent : chan[ch].sent[i].by = "send_my_addrs"}) = 1
        /\ chan[ch].tasks["handle_receive_addrs"] \in {"ended", "cancelled"}
        /\ chan[ch].tasks["handle_receive_get_addrs"] \in {"ended", "cancelled"}

(***************************************************************************)
(* C23: start writes at most one message, a GetAddrs, and attempts it only *)
(* once both receive loops are recorded in the jobs manager; whatever the  *)
(* outcome of that send, start returns Ok and the step leaves every loop   *)
(* and the jobs recorded as they were.                                     *)
(***************************************************************************)
ByStart(c) == {i \in DOMAIN c.sent : c.sent[i].by = "start"}

C23_OneGetAddrsAfterLoops ==
    /\ [](\A ch \in DOMAIN chan :
            LET c == chan[ch] IN
            /\ c.start \in {"new", "ready", "spawn_addrs", "spawn_get_addrs",
                            "send_get_addrs", "started"}
            /\ Cardinality(ByStart(c)) <= 1
            /\ \A i \in ByStart(c) : c.sent[i].msg = GetAddrsMessage(0)
            /\ ByStart(c) # {} => c.start = "started"
            /\ c.start \in {"send_get_addrs", "started"} =>
                 /\ {"handle_receive_addrs", "handle_receive_get_addrs"} \subseteq c.jobs
                 /\ c.tasks["handle_receive_addrs"] # "none"
                 /\ c.tasks["handle_receive_get_addrs"] # "none")
    /\ [][\A ch \in DOMAIN chan :
            chan[ch].start = "send_get_addrs" /\ chan'[ch].start # "send_get_addrs" =>
               /\ chan'[ch].start = "started"
               /\ chan'[ch].tasks = chan[ch].tasks
               /\ chan'[ch].jobs = chan[ch].jobs
               /\ chan'[ch].closed = chan[ch].closed
               /\ chan'[ch].stopped = chan[ch].stopped]_vars

\* start has returned on an open channel without its GetAddrs written (the send
\* failed); the receive loop is storing a list, the reply loop is loading one.
C23_Witness ==
    \E ch \in DOMAIN chan :
        /\ chan[ch].start = "started"
        /\ ByStart(chan[ch]) = {}
        /\ ~chan[ch].closed
        /\ chan[ch].tasks["handle_receive_addrs"] = "store"
        /\ chan[ch].pending # <<>>
        /\ chan[ch].tasks["handle_receive_get_addrs"] = "load"

(***************************************************************************)
(* C24: every message the self-announcement writes is an Addrs with the    *)
(* external_addr of the settings; two of them are at least 900 seconds     *)
(* apart; the loop starts at its send, so it never sleeps before its first *)
(* send; and it runs only as long as every send so far succeeded: at most  *)
(* one send failed and, once that happened, the loop is over.              *)
(***************************************************************************)
Announced(c) == {i \in DOMAIN c.sent : ByAnnounceLoop(c.sent[i])}

C24_AnnounceEvery900 ==
    /\ [](\A ch \in DOMAIN chan :
            LET c == chan[ch]
                A == Announced(c)
            IN  /\ \A i \in A : c.sent[i].msg = AddrsMessage(settings.external_addr, 0)
                /\ \A i, j \in A : i < j => c.sent[j].when >= c.sent[i].when + 900
                /\ c.tasks["send_my_addrs"] = "sleep" => c.rounds >= 1
                /\ Running(c, "send_my_addrs") => Cardinality(A) = c.rounds
                /\ Cardinality(A) \in {c.rounds, c.rounds - 1}
                /\ c.rounds = 0 => c.tasks["send_my_addrs"] \in {"none", "send", "cancelled"})
    /\ [][\A ch \in DOMAIN chan :
            chan[ch].tasks["send_my_addrs"] = "none" /\ chan'[ch].tasks["send_my_addrs"] # "none"
               => chan'[ch].tasks["send_my_addrs"] = "send"]_vars

\* Two announcements were written on a channel that is still open, and the
\* loop sleeps for the third.
C24_Witness ==
    \E ch \in DOMAIN chan :
        /\ ~chan[ch].closed
        /\ Cardinality(Announced(chan[ch])) = 2
        /\ chan[ch].tasks["send_my_addrs"] = "sleep"

(***************************************************************************)
(* C25, as stated: on a channel set up without the dispatcher of Addrs or  *)
(* of GetAddrs, init ends in the typed DispatcherMissing failure, with no  *)
(* subscription made and no instance created.                              *)
(***************************************************************************)
C25_MissingDispatcherIsTypedFailure ==
    \A ch \in DOMAIN chan :
        (chan[ch].dispatchers # MessageTypes /\ chan[ch].start # "new") =>
            /\ chan[ch].start = "dispatcher_missing"
            /\ chan[ch].subs = <<>>
            /\ chan[ch].addrs_sub = 0
            /\ chan[ch].get_addrs_sub = 0

(***************************************************************************)
(* C27, as stated: a tx.transfer call whose build is in progress holds no  *)
(* guard on validator_state.                                               *)
(***************************************************************************)
C27_BuildHoldsNoGuard ==
    \A c \in CallIds :
        (calls[c].method = "tx.transfer" /\ calls[c].pc = "build") => c \notin readers

(***************************************************************************)
(* C28: a tx.transfer call runs no dry run and takes no MemoryState, never *)
(* answers TxSimulationFail, and once it has built a transaction it ends   *)
(* with exactly one broadcast of that transaction when there is a sync P2P *)
(* network (with TxBroadcastFail and no broadcast when there is none),     *)
(* whatever the ledger says of the transaction by then.                    *)
(***************************************************************************)
C28_BuiltIsBroadcastUnchecked ==
    \A c \in CallIds :
        calls[c].method = "tx.transfer" =>
            /\ "simulate" \notin calls[c].did
            /\ "snapshot" \notin calls[c].did
            /\ calls[c].result # JsonError("TxSimulationFail")
            /\ (Done(c) /\ calls[c].tx # NoTx) =>
                 IF sync_p2p
                   THEN /\ Len(calls[c].bcasts) = 1
                        /\ calls[c].bcasts[1].tx = calls[c].tx
                   ELSE /\ calls[c].bcasts = <<>>
                        /\ calls[c].result = JsonError("TxBroadcastFail")

\* A transfer answered with an id after its transaction was broadcast, while
\* the coin it spends has meanwhile been spent in the ledger.
C28_Witness ==
    \E c \in CallIds :
        /\ calls[c].method = "tx.transfer"
        /\ Done(c)
        /\ calls[c].bcasts = <<Sent(calls[c].tx, TRUE)>>
        /\ calls[c].result = JsonResponse(tx_hash(calls[c].tx))
        /\ ~validate_state_transitions(ledger, calls[c].tx)

(***************************************************************************)
(* C29.  OwnSub: the subscription of the instance for a message type;      *)
(* Processed: the loop of the instance has received frame k; Queued: the   *)
(* frame waits in the queue of the instance.                               *)
(***************************************************************************)
OwnSub(c, type) == IF type = "addrs" THEN c.addrs_sub ELSE c.get_addrs_sub

Processed(c, k) ==
    /\ OwnSub(c, c.frames[k].type) # 0
    /\ \E j \in DOMAIN c.subs[OwnSub(c, c.frames[k].type)].got :
         c.subs[OwnSub(c, c.frames[k].type)].got[j].no = k

Queued(c, k) ==
    /\ OwnSub(c, c.frames[k].type) # 0
    /\ \E j \in DOMAIN c.subs[OwnSub(c, c.frames[k].type)].queue :
         c.subs[OwnSub(c, c.frames[k].type)].queue[j].no = k

\* C29, as stated: every frame that arrives after start has sent its GetAddrs
\* is in the end processed by the loop of the instance (read with the channel
\* staying open: a frame still queued when the channel closes is not counted).
C29_ArrivedIsProcessed ==
    \A ch \in OneChan : \A k \in 1..MaxFrames :
        (Len(chan[ch].frames) >= k) ~>
            \/ Len(chan[ch].frames) >= k /\ Processed(chan[ch], k)
            \/ chan[ch].closed

(***************************************************************************)
(* C29, amended: both subscriptions are made by init and are the same ones *)
(* ever after: they exist before start sends anything and before a loop is *)
(* started; a frame that arrives after start has sent its GetAddrs is      *)
(* either queued for the instance or already received by its loop, never   *)
(* dropped; and it is processed in the end unless the channel closes first *)
(* or, for a GetAddrs, the reply loop has ended on a failed send.          *)
(***************************************************************************)
C29_QueuedFromInit ==
    /\ [](\A ch \in DOMAIN chan :
            LET c == chan[ch] IN
            /\ (c.start = "new") =>
                 ByStart(c) = {} /\ \A t \in Tasks : c.tasks[t] = "none"
            /\ (c.start # "new") =>
                 /\ c.addrs_sub \in DOMAIN c.subs
                 /\ c.get_addrs_sub \in DOMAIN c.subs
                 /\ c.subs[c.addrs_sub].type = "addrs"
                 /\ c.subs[c.get_addrs_sub].type = "getaddrs"
            /\ \A k \in DOMAIN c.frames : Queued(c, k) \/ Processed(c, k))
    /\ [][\A ch \in DOMAIN chan :
            chan[ch].start # "new" =>
               /\ chan'[ch].addrs_sub = chan[ch].addrs_sub
               /\ chan'[ch].get_addrs_sub = chan[ch].get_addrs_sub]_vars
    /\ \A ch \in OneChan : \A k \in 1..MaxFrames :
         (Len(chan[ch].frames) >= k) ~>
            \/ Len(chan[ch].frames) >= k /\ Processed(chan[ch], k)
            \/ chan[ch].closed
            \/ /\ Len(chan[ch].frames) >= k
               /\ chan[ch].frames[k].type = "getaddrs"
               /\ chan[ch].tasks["handle_receive_get_addrs"] = "ended"

\* An open channel on which start has written its GetAddrs and the two frames
\* that arrived afterwards, an Addrs and a GetAddrs, were both processed.
C29_Witness ==
    \E ch \in DOMAIN chan :
        /\ ~chan[ch].closed
        /\ ByStart(chan[ch]) # {}
        /\ Len(chan[ch].frames) >= 2
        /\ \A k \in DOMAIN chan[ch].frames : Processed(chan[ch], k)
        /\ \E k \in DOMAIN chan[ch].frames : chan[ch].frames[k].type = "addrs"
        /\ \E k \in DOMAIN chan[ch].frames : chan[ch].frames[k].type = "getaddrs"

(***************************************************************************)
(* C30.  StepsOf: what read_ws_msg did on notification n, in order.        *)
(* Expected: what it does in full on a notification with these balances.   *)
(***************************************************************************)
StepsOf(n) ==
    LET own == SelectSeq(sol.log, LAMBDA e : e.n = n /\ e.ev # "notification")
    IN  [i \in DOMAIN own |-> own[i].ev]

Expected(new_bal, old_balance) ==
    IF new_bal > old_balance THEN <<"forward", "notify", "unsubscribe">>
    ELSE IF new_bal < old_balance THEN <<"unsubscribe">>
    ELSE <<>>

IsPrefix(s, t) == Len(s) <= Len(t) /\ \A i \in DOMAIN s : s[i] = t[i]

NotifyEvents == SelectSeq(sol.log, LAMBDA e : e.ev = "notify")
UnsubscribeEvents == SelectSeq(sol.log, LAMBDA e : e.ev = "unsubscribe")
Unsubscribes == SelectSeq(sol.watch_channel, LAMBDA r : r.method = "accountUnsubscribe")

(***************************************************************************)
(* C30: on a notification the handler forwards, notifies and unsubscribes, *)
(* in that order, when the new balance is above the recorded one; only     *)
(* unsubscribes when it is below; does nothing when they are equal; a      *)
(* failed forward ends the handling with nothing notified.  The notify     *)
(* channel holds (owner, new balance - recorded balance) of the deposits   *)
(* notified and no amount on it is zero; the unsubscribe requests are      *)
(* those of the notifications, with their subscription ids.                *)
(***************************************************************************)
C30_NotifyOnlyForwardedDeposits ==
    /\ \A x \in DOMAIN sol.log :
         LET e == sol.log[x] IN
         e.ev = "notification" =>
            /\ \/ IsPrefix(StepsOf(e.n), Expected(e.new_bal, e.old_balance))
               \/ e.new_bal > e.old_balance /\ StepsOf(e.n) = <<"forward_failed">>
            /\ (e.n < sol.n \/ sol.pc = "idle") =>
                  \/ StepsOf(e.n) = Expected(e.new_bal, e.old_balance)
                  \/ StepsOf(e.n) = <<"forward_failed">>
    /\ Len(sol.notify_channel) = Len(NotifyEvents)
    /\ \A j \in DOMAIN sol.notify_channel :
         /\ sol.notify_channel[j].pubkey = NotifyEvents[j].owner
         /\ sol.notify_channel[j].amount = NotifyEvents[j].new_bal - NotifyEvents[j].old_balance
         /\ NotifyEvents[j].new_bal > NotifyEvents[j].old_balance
         /\ sol.notify_channel[j].amount >= 1
    /\ Len(Unsubscribes) = Len(UnsubscribeEvents)
    /\ \A j \in DOMAIN Unsubscribes : Unsubscribes[j].sub_id = UnsubscribeEvents[j].sub_id

\* A deposit was forwarded, notified and unsubscribed, and a notification of a
\* lower balance was answered with an unsubscribe alone.
C30_Witness ==
    /\ sol.pc = "idle"
    /\ \E x, y \in DOMAIN sol.log :
         /\ sol.log[x].ev = "notification"
         /\ sol.log[x].new_bal > sol.log[x].old_balance
         /\ StepsOf(sol.log[x].n) = <<"forward", "notify", "unsubscribe">>
         /\ sol.log[y].ev = "notification"
         /\ sol.log[y].new_bal < sol.log[y].old_balance
         /\ StepsOf(sol.log[y].n) = <<"unsubscribe">>
    /\ Len(sol.notify_channel) = 1


(***************************************************************************)
(* C31: a key is in the subscriptions map, with the balance watch() read,  *)
(* before its accountSubscribe is on the watch channel, hence before the   *)
(* server knows of it; so, however watch() calls and notifications         *)
(* interleave, a notification of a requested subscription whose owner      *)
(* field names the key of that subscription finds the entry: it is never   *)
(* among those that met no entry, and each one handled was compared with   *)
(* the recorded balance.                                                   *)
(***************************************************************************)
C31_RecordedBeforeSubscribed ==
    /\ \A i \in DOMAIN sol.watch_channel :
         sol.watch_channel[i].method = "accountSubscribe" =>
            /\ sol.subscriptions[sol.watch_channel[i].key].watched
            /\ sol.subscriptions[sol.watch_channel[i].key].balance
                 = sol.watching[sol.watch_channel[i].key].balance
    /\ \A k \in ServerSubscribed : sol.subscriptions[k].watched
    /\ \A m \in sol.no_entry : m.owner # m.sub
    /\ \A x \in DOMAIN sol.log :
         /\ sol.subscriptions[sol.log[x].owner].watched
         /\ sol.log[x].old_balance = sol.subscriptions[sol.log[x].owner].balance

\* C31 as stated: every notification of a requested subscription finds an
\* entry for its owner key.
C31_EveryNotificationFindsEntry == sol.no_entry = {}

\* A notification of the subscription of one key, naming that key as owner, is
\* being handled while the watch() of the other key has recorded it and has
\* not yet enqueued its request.
C31_Witness ==
    \E k, other \in SolKeys :
        /\ k # other
        /\ k \in ServerSubscribed
        /\ sol.pc \in {"forward", "notify", "unsubscribe"}
        /\ sol.cur.owner = k
        /\ sol.cur.sub_id = SubIdOf(k)
        /\ sol.watching[other].at = 2
        /\ sol.subscriptions[other].watched
        /\ \A i \in DOMAIN sol.watch_channel : sol.watch_channel[i].key # other

====
